---- MODULE Spec2Model ----
(***************************************************************************)
(* Smart email cleaner (Gmail and Outlook variants).                       *)
(*                                                                         *)
(* Strings are TLA+ strings; the operators below compute on them the way   *)
(* the Python built-ins the scripts use do (str.lower, str.strip,          *)
(* str.replace, str.split, the `in` substring test, int()).  Strings are   *)
(* ASCII: where the documentation's example subject has an em dash the     *)
(* module writes a hyphen, which takes part in no keyword either.          *)
(***************************************************************************)
EXTENDS Integers, Sequences, FiniteSets, TLC

VARIABLES
    provider,   \* "gmail" | "outlook": which of the two scripts runs
    arg,        \* is_marketing_email: the email it is called with
    ret,        \* is_marketing_email: what it returned (NoResult before the call)
    pc,         \* where the program stands
    op,         \* the cleanup operation under way ("none" at the menu)
    batch,      \* delete_emails_batch: emails, as the sequence of the messages' ids
    to_trash,   \* delete_emails_batch: its to_trash parameter
    i,          \* delete_emails_batch: messages processed so far
    success,    \* delete_emails_batch: its success counter
    failed,     \* delete_emails_batch: its failed counter
    issued,     \* the mutation requests this call has sent, in order
    slept,      \* the positions (i + 1) after which this call slept
    emails,     \* main: the fetched emails, in arrival order
    now,        \* categorize_senders: datetime.utcnow(), <<seconds, microseconds>>
    sender_stats,   \* analyze_emails' result: the senders in first-seen order
    categories,     \* categorize_senders' result: [key, senders, email_count] in dict order
    cat,        \* interactive_menu: the place in categories of the category chosen
    sel,        \* interactive_menu: the selection expression as typed
    confirm,    \* the answer to the confirmation prompt as typed
    requested   \* the mailbox: the ids the operations that are over sent requests for
                \* (kept by the sessions that record them, RecordedSpec)

classifierVars == <<arg, ret>>
batchVars == <<batch, to_trash, i, success, failed, issued, slept>>
analysisVars == <<emails, now, sender_stats, categories>>
menuVars == <<cat, sel, confirm>>
vars == <<provider, classifierVars, pc, op, batchVars, analysisVars, menuVars, requested>>

Providers == {"gmail", "outlook"}

\* A key the provider's record does not carry (dict.get falls to its default).
Absent == "<absent>"

NoResult == [is_marketing |-> FALSE, score |-> -1, reasons |-> <<>>]

\* No email (the classifier is not being called).
NoEmail == [id |-> 0]

\* No mailbox fetched, nothing analysed.
NoAnalysis ==
    /\ emails = <<>> /\ now = <<0, 0>> /\ sender_stats = <<>> /\ categories = <<>>

\* Nothing chosen, nothing typed.
NoInput == ""

MenuIdle == cat = 0 /\ sel = NoInput /\ confirm = NoInput

\* No batch call under way.
BatchIdle ==
    /\ batch = <<>> /\ to_trash = TRUE /\ i = 0 /\ success = 0 /\ failed = 0
    /\ issued = <<>> /\ slept = {}

(***************************************************************************)
(* Python string built-ins                                                 *)
(***************************************************************************)
UPPERCASE == "ABCDEFGHIJKLMNOPQRSTUVWXYZ"
LOWERCASE == "abcdefghijklmnopqrstuvwxyz"

\* s[k - 1:k]: the k-th character, "" beyond the end
CharAt(s, k) == IF k \in 1..Len(s) THEN SubSeq(s, k, k) ELSE ""

\* s[a - 1:b]: characters a..b, clipped to the string like a slice
Sub(s, a, b) ==
    LET lo == IF a < 1 THEN 1 ELSE a
        hi == IF b > Len(s) THEN Len(s) ELSE b
    IN  IF lo > hi THEN "" ELSE SubSeq(s, lo, hi)

\* str.lower() of one character
LowerChar(c) ==
    IF \E k \in 1..Len(UPPERCASE) : CharAt(UPPERCASE, k) = c
    THEN CharAt(LOWERCASE, CHOOSE k \in 1..Len(UPPERCASE) : CharAt(UPPERCASE, k) = c)
    ELSE c

RECURSIVE Lower(_)
Lower(s) == IF s = "" THEN "" ELSE LowerChar(CharAt(s, 1)) \o Lower(Tail(s))

\* p in s
Contains(s, p) == \E k \in 0..(Len(s) - Len(p)) : Sub(s, k + 1, k + Len(p)) = p

RECURSIVE LStrip(_, _)
LStrip(s, chars) ==
    IF s # "" /\ CharAt(s, 1) \in chars THEN LStrip(Tail(s), chars) ELSE s

RECURSIVE RStrip(_, _)
RStrip(s, chars) ==
    IF s # "" /\ CharAt(s, Len(s)) \in chars
    THEN RStrip(Sub(s, 1, Len(s) - 1), chars)
    ELSE s

WhiteSpace == {" ", "\t", "\n", "\r"}

\* s.strip()
Strip(s) == RStrip(LStrip(s, WhiteSpace), WhiteSpace)

\* s.strip(chars)
StripChars(s, chars) == RStrip(LStrip(s, chars), chars)

\* s.replace(old, ""), old non-empty: every occurrence, left to right
RECURSIVE Remove(_, _)
Remove(s, old) ==
    IF Len(s) < Len(old) THEN s
    ELSE IF Sub(s, 1, Len(old)) = old
         THEN Remove(Sub(s, Len(old) + 1, Len(s)), old)
         ELSE CharAt(s, 1) \o Remove(Tail(s), old)

\* The first position of character c in s at or after position from; 0 when none.
RECURSIVE IndexFrom(_, _, _)
IndexFrom(s, c, from) ==
    IF from > Len(s) THEN 0
    ELSE IF CharAt(s, from) = c THEN from
    ELSE IndexFrom(s, c, from + 1)

(***************************************************************************)
(* Marketing/spam indicators                                               *)
(***************************************************************************)
MARKETING_KEYWORDS == <<
    "unsubscribe", "opt-out", "opt out", "email preferences", "manage preferences",
    "view in browser", "view online", "click here", "limited time", "act now",
    "don't miss", "exclusive offer", "special offer", "discount", "sale",
    "free shipping", "order now", "buy now", "shop now", "deal", "promo",
    "newsletter", "weekly digest", "daily digest", "notification settings",
    "update your preferences", "manage subscriptions", "email settings" >>

MARKETING_SENDER_PATTERNS == <<
    "noreply", "no-reply", "newsletter", "marketing", "promo", "offers",
    "deals", "news@", "info@", "hello@", "support@", "team@", "updates@",
    "notifications@", "alert@", "mailer", "campaign", "bulk", "mass" >>

OUTLOOK_MARKETING_DOMAINS == <<
    "linkedin.com", "facebookmail.com", "twitter.com", "pinterest.com",
    "quora.com", "medium.com", "substack.com", "mailchimp.com",
    "sendgrid.net", "amazonses.com", "constantcontact.com",
    "hubspot.com", "salesforce.com", "marketo.com", "pardot.com",
    "groupon.com", "retailmenot.com", "slickdeals.net",
    "wish.com", "aliexpress.com", "banggood.com", "shein.com",
    "spotify.com", "netflix.com", "hulu.com", "discord.com",
    "uber.com", "lyft.com", "doordash.com", "grubhub.com",
    "yelp.com", "tripadvisor.com", "booking.com", "expedia.com" >>

GMAIL_MARKETING_DOMAINS ==
    OUTLOOK_MARKETING_DOMAINS \o
    << "youtube.com", "tiktok.com", "instagram.com", "snapchat.com" >>

KNOWN_MARKETING_DOMAINS(p) ==
    IF p = "gmail" THEN GMAIL_MARKETING_DOMAINS ELSE OUTLOOK_MARKETING_DOMAINS

(***************************************************************************)
(* Sender normalisation                                                    *)
(***************************************************************************)
\* re.search(r'<([^>]+)>', s): the leftmost '<' whose next '>' lies at least two
\* places on; <<start, end>> of the whole match, <<0, 0>> when there is none.
RECURSIVE AngleMatch(_, _)
AngleMatch(s, from) ==
    LET lt == IndexFrom(s, "<", from)
        gt == IndexFrom(s, ">", lt + 1)
    IN  IF lt = 0 \/ gt = 0 THEN <<0, 0>>
        ELSE IF gt >= lt + 2 THEN <<lt, gt>>
        ELSE AngleMatch(s, lt + 1)

\* Gmail: parse_sender(from_header) -> <<email, name>>
parse_sender(from_header) ==
    IF from_header = "" THEN <<"unknown", "unknown">>
    ELSE
      LET m == AngleMatch(from_header, 1) IN
      IF m[1] # 0 THEN
          LET group == Sub(from_header, m[1] + 1, m[2] - 1)
              email == Lower(group)
              name  == StripChars(Strip(Remove(from_header, "<" \o group \o ">")), {"\""})
          IN  <<email, IF name # "" THEN name ELSE email>>
      ELSE IF Contains(from_header, "@")
          THEN <<Strip(Lower(from_header)), Strip(Lower(from_header))>>
      ELSE <<from_header, from_header>>

\* dict.get(key, default)
Get(v, default) == IF v = Absent THEN default ELSE v

\* (dict.get(key) or "")
OrEmpty(v) == IF v = Absent THEN "" ELSE v

(***************************************************************************)
(* is_marketing_email                                                      *)
(***************************************************************************)
\* for x in list: if cond(x): ...; break   -- the first entry that occurs in
\* either text, "" when none does
RECURSIVE FirstIn(_, _, _)
FirstIn(list, a, b) ==
    IF list = <<>> THEN ""
    ELSE IF Contains(a, Head(list)) \/ Contains(b, Head(list)) THEN Head(list)
    ELSE FirstIn(Tail(list), a, b)

\* for keyword in MARKETING_KEYWORDS: if keyword in text: keyword_matches += 1
RECURSIVE CountIn(_, _)
CountIn(list, text) ==
    IF list = <<>> THEN 0
    ELSE (IF Contains(text, Head(list)) THEN 1 ELSE 0) + CountIn(Tail(list), text)

\* The sender address and lowercased display name the classifier matches on.
ClassifierSender(p, email) ==
    IF p = "gmail"
    THEN LET ps == parse_sender(Get(email.from, "")) IN <<ps[1], Lower(ps[2])>>
    ELSE <<Lower(Get(email.address, "")), Lower(Get(email.name, ""))>>

SenderPatternStep(sender_email, sender_name) ==
    LET pattern == FirstIn(MARKETING_SENDER_PATTERNS, sender_email, sender_name)
    IN  IF pattern # ""
        THEN [score |-> 2, reasons |-> << <<"sender pattern", pattern>> >>]
        ELSE [score |-> 0, reasons |-> <<>>]

DomainStep(p, sender_email) ==
    LET domain == FirstIn(KNOWN_MARKETING_DOMAINS(p), sender_email, "")
    IN  IF domain # ""
        THEN [score |-> 3, reasons |-> << <<"known marketing domain", domain>> >>]
        ELSE [score |-> 0, reasons |-> <<>>]

KeywordStep_StrictThreshold(text) ==
    LET keyword_matches == CountIn(MARKETING_KEYWORDS, text)
    IN  IF keyword_matches > 3
        THEN [score |-> 4, reasons |-> << <<"marketing keywords", keyword_matches>> >>]
        ELSE IF keyword_matches >= 1
        THEN [score |-> 2, reasons |-> << <<"marketing keyword(s)", keyword_matches>> >>]
        ELSE [score |-> 0, reasons |-> <<>>]

KeywordStep(text) ==
    LET keyword_matches == CountIn(MARKETING_KEYWORDS, text)
    IN  IF keyword_matches >= 3
        THEN [score |-> 4, reasons |-> << <<"marketing keywords", keyword_matches>> >>]
        ELSE IF keyword_matches >= 1
        THEN [score |-> 2, reasons |-> << <<"marketing keyword(s)", keyword_matches>> >>]
        ELSE [score |-> 0, reasons |-> <<>>]

UnsubscribeStep(text) ==
    IF Contains(text, "unsubscribe")
    THEN [score |-> 3, reasons |-> << <<"contains", "unsubscribe">> >>]
    ELSE [score |-> 0, reasons |-> <<>>]

LabelShortCircuit_SocialFirst(p, email) ==
    IF p = "gmail" /\ "CATEGORY_SOCIAL" \in email.labelIds
    THEN [is_marketing |-> TRUE, score |-> 4,
          reasons |-> << <<"Gmail marked as", "Social">> >>]
    ELSE IF p = "gmail" /\ "CATEGORY_PROMOTIONS" \in email.labelIds
    THEN [is_marketing |-> TRUE, score |-> 5,
          reasons |-> << <<"Gmail marked as", "Promotions">> >>]
    ELSE NoResult

\* The provider's category short-circuit (Gmail only; the Outlook script has none).
LabelShortCircuit(p, email) ==
    IF p = "gmail" /\ "CATEGORY_PROMOTIONS" \in email.labelIds
    THEN [is_marketing |-> TRUE, score |-> 5,
          reasons |-> << <<"Gmail marked as", "Promotions">> >>]
    ELSE IF p = "gmail" /\ "CATEGORY_SOCIAL" \in email.labelIds
    THEN [is_marketing |-> TRUE, score |-> 4,
          reasons |-> << <<"Gmail marked as", "Social">> >>]
    ELSE NoResult

MARKETING_THRESHOLD == 3

is_marketing_email(p, email) ==
    LET subject == Lower(OrEmpty(email.subject))
        snippet == Lower(OrEmpty(email.snippet))
        sender  == ClassifierSender(p, email)
        short   == LabelShortCircuit(p, email)
        text    == subject \o " " \o snippet
        s1      == SenderPatternStep(sender[1], sender[2])
        s2      == DomainStep(p, sender[1])
        s3      == KeywordStep(text)
        s4      == UnsubscribeStep(text)
        score   == s1.score + s2.score + s3.score + s4.score
    IN  IF short # NoResult THEN short
        ELSE [is_marketing |-> score >= MARKETING_THRESHOLD,
              score        |-> score,
              reasons      |-> s1.reasons \o s2.reasons \o s3.reasons \o s4.reasons]

(***************************************************************************)
(* analyze_emails                                                          *)
(***************************************************************************)
\* The printable ASCII characters in code point order (the grave accent, which
\* a TLA+ string cannot hold, left out).
ASCII ==
    " !\"#$%&'()*+,-./0123456789:;<=>?@ABCDEFGHIJKLMNOPQRSTUVWXYZ[\\]^_abcdefghijklmnopqrstuvwxyz{|}~"

\* The place of a character in that order.
Ord(c) == CHOOSE k \in 1..Len(ASCII) : CharAt(ASCII, k) = c

\* a < b on str: by code point, a proper prefix before the longer string
RECURSIVE StrLess(_, _)
StrLess(a, b) ==
    IF b = "" THEN FALSE
    ELSE IF a = "" THEN TRUE
    ELSE IF CharAt(a, 1) = CharAt(b, 1) THEN StrLess(Tail(a), Tail(b))
    ELSE Ord(CharAt(a, 1)) < Ord(CharAt(b, 1))

Max(a, b) == IF a >= b THEN a ELSE b

\* None, for oldest and newest: falsy like the empty string, which no stored
\* timestamp is.
None == ""

\* <<address, name>> the aggregation files the email under.
\* Gmail: parse_sender(email.get("from", "")).
\* Outlook: sender.get("address", "unknown").lower(), sender.get("name", addr).
SenderOf(p, email) ==
    IF p = "gmail" THEN parse_sender(Get(email.from, ""))
    ELSE LET addr == Lower(Get(email.address, "unknown"))
         IN  <<addr, Get(email.name, addr)>>

\* The defaultdict's factory.
NewStats(addr) ==
    [addr |-> addr, total |-> 0, unread |-> 0, read |-> 0, marketing_score |-> 0,
     emails |-> <<>>, name |-> "", oldest |-> None, newest |-> None,
     read_rate |-> <<0, 1>>, is_promotional |-> FALSE]

\* The place of addr's record among the senders seen so far; 0 when it is new.
Position(stats_seq, addr) ==
    IF \E k \in 1..Len(stats_seq) : stats_seq[k].addr = addr
    THEN CHOOSE k \in 1..Len(stats_seq) : stats_seq[k].addr = addr
    ELSE 0

\* One iteration of the loop over emails; idx is the email's place in emails
\* (stats["emails"] holds references to the fetched emails).
AddEmail(p, stats_seq, email, idx) ==
    LET sender   == SenderOf(p, email)
        m        == is_marketing_email(p, email)
        k0       == Position(stats_seq, sender[1])
        seq1     == IF k0 = 0 THEN Append(stats_seq, NewStats(sender[1])) ELSE stats_seq
        k        == IF k0 = 0 THEN Len(seq1) ELSE k0
        date_str == Get(email.date, "")
        promo    == p = "gmail" /\ "CATEGORY_PROMOTIONS" \in email.labelIds
    IN  [seq1 EXCEPT ![k] =
            [@ EXCEPT
                !.total = @ + 1,
                !.name = sender[2],
                !.emails = Append(@, idx),
                !.marketing_score = Max(@, m.score),
                !.is_promotional = @ \/ promo,
                !.read = IF email.isRead THEN @ + 1 ELSE @,
                !.unread = IF email.isRead THEN @ ELSE @ + 1,
                !.oldest = IF date_str # "" /\ (@ = None \/ StrLess(date_str, @))
                           THEN date_str ELSE @,
                !.newest = IF date_str # "" /\ (@ = None \/ StrLess(@, date_str))
                           THEN date_str ELSE @]]

\* The loop over the first n emails: the statistics of the emails before the
\* n-th (of no more senders than emails) are there when it is added.
RECURSIVE Aggregate(_, _, _)
Aggregate(p, mails, n) ==
    IF n = 0 THEN <<>>
    ELSE LET before == Aggregate(p, mails, n - 1)
         IN  CASE Len(before) < n -> AddEmail(p, before, mails[n], n)

\* read / total, as <<numerator, denominator>>
ReadRate_OfUnread(st) == <<st.unread, st.total>>

ReadRate(st) == <<st.read, st.total>>

\* Calculate read rates
FinalizeRates(stats_seq) ==
    [k \in 1..Len(stats_seq) |->
        IF stats_seq[k].total > 0
        THEN [stats_seq[k] EXCEPT !.read_rate = ReadRate(stats_seq[k])]
        ELSE stats_seq[k]]

analyze_emails(p, mails) == FinalizeRates(Aggregate(p, mails, Len(mails)))

(***************************************************************************)
(* Timestamps                                                              *)
(*                                                                         *)
(* A parsed timestamp is [ok, naive, micro, offset]: naive the wall-clock  *)
(* reading in seconds since 2000-01-01 00:00:00 (what .replace(tzinfo=None)*)
(* keeps), micro its microseconds, offset the UTC offset in minutes.       *)
(***************************************************************************)
DIGITS == "0123456789"

IsDigit(c) == \E k \in 1..Len(DIGITS) : CharAt(DIGITS, k) = c

DigitVal(c) == (CHOOSE k \in 1..Len(DIGITS) : CharAt(DIGITS, k) = c) - 1

AllDigits(s) == s # "" /\ \A k \in 1..Len(s) : IsDigit(CharAt(s, k))

\* The value of a string of decimal digits.
RECURSIVE DigitsVal(_)
DigitsVal(s) ==
    IF s = "" THEN 0
    ELSE DigitsVal(Sub(s, 1, Len(s) - 1)) * 10 + DigitVal(CharAt(s, Len(s)))

\* s cut at every character of seps (like str.split(sep): empty pieces kept).
RECURSIVE SplitOn(_, _)
SplitOn(s, seps) ==
    IF \A k \in 1..Len(s) : CharAt(s, k) \notin seps THEN <<s>>
    ELSE LET k == CHOOSE j \in 1..Len(s) :
                     /\ CharAt(s, j) \in seps
                     /\ \A h \in 1..(j - 1) : CharAt(s, h) \notin seps
         IN  <<Sub(s, 1, k - 1)>> \o SplitOn(Sub(s, k + 1, Len(s)), seps)

\* The pieces between runs of whitespace (what the \s+ of a strptime format
\* separates); a string that starts or ends with whitespace has an empty piece.
RECURSIVE DropInnerEmpty(_)
DropInnerEmpty(pieces) ==
    IF Len(pieces) <= 2 THEN pieces
    ELSE IF pieces[2] = "" THEN DropInnerEmpty(<<pieces[1]>> \o SubSeq(pieces, 3, Len(pieces)))
    ELSE <<pieces[1]>> \o DropInnerEmpty(Tail(pieces))

Fields(s) == DropInnerEmpty(SplitOn(s, WhiteSpace))

WEEKDAYS == <<"mon", "tue", "wed", "thu", "fri", "sat", "sun">>
MONTHS == <<"jan", "feb", "mar", "apr", "may", "jun",
            "jul", "aug", "sep", "oct", "nov", "dec">>

IndexIn(list, x) ==
    IF \E k \in 1..Len(list) : list[k] = x
    THEN CHOOSE k \in 1..Len(list) : list[k] = x
    ELSE 0

IsLeap(y) == y % 4 = 0 /\ (y % 100 # 0 \/ y % 400 = 0)

DaysInMonth(y, m) ==
    IF m = 2 THEN (IF IsLeap(y) THEN 29 ELSE 28)
    ELSE IF m \in {4, 6, 9, 11} THEN 30 ELSE 31

\* Days from 2000-01-01 to the civil date y-m-d (proleptic Gregorian).
DaysFromCivil(y, m, d) ==
    LET yy  == IF m <= 2 THEN y - 1 ELSE y
        era == yy \div 400
        yoe == yy - era * 400
        mp  == IF m > 2 THEN m - 3 ELSE m + 9
        doy == (153 * mp + 2) \div 5 + d - 1
        doe == yoe * 365 + yoe \div 4 - yoe \div 100 + doy
    IN  era * 146097 + doe - 730425

NoTime == [ok |-> FALSE, naive |-> 0, micro |-> 0, offset |-> 0]

\* datetime(y, m, d, h, mi, sec, micro, tzinfo=offset), ValueError as NoTime.
MakeTime(y, m, d, h, mi, sec, micro, offset) ==
    IF /\ y >= 1 /\ m \in 1..12 /\ d >= 1 /\ d <= DaysInMonth(y, m)
       /\ h \in 0..23 /\ mi \in 0..59 /\ sec \in 0..59
       /\ offset > -1440 /\ offset < 1440
    THEN [ok |-> TRUE,
          naive |-> DaysFromCivil(y, m, d) * 86400 + h * 3600 + mi * 60 + sec,
          micro |-> micro, offset |-> offset]
    ELSE NoTime

\* One or two digits, as %d, %H, %M and %S take them; -1 otherwise.
OneOrTwoDigits(s) == IF Len(s) \in {1, 2} /\ AllDigits(s) THEN DigitsVal(s) ELSE -1

\* %z: +HHMM, +HH:MM or Z; <<TRUE, minutes>> or <<FALSE, 0>>.  (The forms with
\* seconds in the offset, which no mail header uses, are not taken.)
ParseZone(z) ==
    IF z = "Z" THEN <<TRUE, 0>>
    ELSE LET body == IF Len(z) = 6 /\ CharAt(z, 4) = ":"
                     THEN Sub(z, 1, 3) \o Sub(z, 5, 6) ELSE z
         IN  IF /\ Len(body) = 5 /\ CharAt(body, 1) \in {"+", "-"}
                /\ AllDigits(Sub(body, 2, 5))
                /\ DigitVal(CharAt(body, 4)) <= 5
             THEN LET mins == DigitsVal(Sub(body, 2, 3)) * 60 + DigitsVal(Sub(body, 4, 5))
                  IN  <<TRUE, IF CharAt(body, 1) = "-" THEN 0 - mins ELSE mins>>
             ELSE <<FALSE, 0>>

\* strptime(s, "%d %b %Y %H:%M:%S %z") on the fields of s
ParseDayFirst(f) ==
    IF Len(f) # 5 THEN NoTime
    ELSE LET d    == OneOrTwoDigits(f[1])
             m    == IndexIn(MONTHS, Lower(f[2]))
             hms  == SplitOn(f[4], {":"})
             zone == ParseZone(f[5])
         IN  IF /\ d >= 1 /\ m >= 1
                /\ Len(f[3]) = 4 /\ AllDigits(f[3])
                /\ Len(hms) = 3
                /\ \A k \in 1..3 : OneOrTwoDigits(hms[k]) >= 0
                /\ zone[1]
             THEN MakeTime(DigitsVal(f[3]), m, d, OneOrTwoDigits(hms[1]),
                           OneOrTwoDigits(hms[2]), OneOrTwoDigits(hms[3]), 0, zone[2])
             ELSE NoTime

\* strptime(s, "%a, %d %b %Y %H:%M:%S %z") on the fields of s
ParseWeekdayFirst(f) ==
    IF /\ Len(f) = 6
       /\ Len(f[1]) = 4 /\ CharAt(f[1], 4) = ","
       /\ IndexIn(WEEKDAYS, Lower(Sub(f[1], 1, 3))) >= 1
    THEN ParseDayFirst(Tail(f))
    ELSE NoTime

GMAIL_DATE_SLICE == 31

\* Gmail: the formats tried in order on date_str[:31]; the first that parses wins.
ParseGmailDate(date_str) ==
    LET f == Fields(Sub(date_str, 1, IF Len(date_str) < GMAIL_DATE_SLICE
                                        THEN Len(date_str) ELSE GMAIL_DATE_SLICE))
    IN  IF ParseWeekdayFirst(f).ok THEN ParseWeekdayFirst(f) ELSE ParseDayFirst(f)

\* s.replace("Z", "+00:00")
RECURSIVE ReplaceZ(_)
ReplaceZ(s) ==
    IF s = "" THEN ""
    ELSE (IF CharAt(s, 1) = "Z" THEN "+00:00" ELSE CharAt(s, 1)) \o ReplaceZ(Tail(s))

\* The fraction of a second: three or six digits after the point.
ParseFraction(frac) ==
    IF frac = "" THEN <<TRUE, 0>>
    ELSE IF CharAt(frac, 1) = "." /\ Len(frac) \in {4, 7} /\ AllDigits(Tail(frac))
    THEN <<TRUE, IF Len(frac) = 4 THEN DigitsVal(Tail(frac)) * 1000 ELSE DigitsVal(Tail(frac))>>
    ELSE <<FALSE, 0>>

\* Outlook: datetime.fromisoformat(s) for YYYY-MM-DD, then any one separator and
\* HH:MM:SS, a fraction of three or six digits and a +HH:MM offset, the last
\* two optional.  (Every other form is a ValueError here.)
ParseIso(s) ==
    LET datePart == Sub(s, 1, 10)
        rest     == Sub(s, 12, Len(s))
        signAt   == IF IndexFrom(rest, "+", 1) > 0 THEN IndexFrom(rest, "+", 1)
                    ELSE IndexFrom(rest, "-", 1)
        clock    == IF signAt > 0 THEN Sub(rest, 1, signAt - 1) ELSE rest
        zoneStr  == IF signAt > 0 THEN Sub(rest, signAt, Len(rest)) ELSE ""
        zone     == IF zoneStr = "" THEN <<TRUE, 0>>
                    ELSE IF Len(zoneStr) = 6 /\ CharAt(zoneStr, 4) = ":"
                    THEN ParseZone(zoneStr) ELSE <<FALSE, 0>>
        hms      == Sub(clock, 1, 8)
        frac     == ParseFraction(Sub(clock, 9, Len(clock)))
        dateOk   == /\ Len(datePart) = 10
                    /\ CharAt(datePart, 5) = "-" /\ CharAt(datePart, 8) = "-"
                    /\ AllDigits(Sub(datePart, 1, 4))
                    /\ AllDigits(Sub(datePart, 6, 7))
                    /\ AllDigits(Sub(datePart, 9, 10))
        clockOk  == /\ Len(hms) = 8
                    /\ CharAt(hms, 3) = ":" /\ CharAt(hms, 6) = ":"
                    /\ AllDigits(Sub(hms, 1, 2))
                    /\ AllDigits(Sub(hms, 4, 5))
                    /\ AllDigits(Sub(hms, 7, 8))
    IN  IF ~dateOk THEN NoTime
        ELSE IF Len(s) = 10
        THEN MakeTime(DigitsVal(Sub(datePart, 1, 4)), DigitsVal(Sub(datePart, 6, 7)),
                      DigitsVal(Sub(datePart, 9, 10)), 0, 0, 0, 0, 0)
        ELSE IF clockOk /\ frac[1] /\ zone[1]
        THEN MakeTime(DigitsVal(Sub(datePart, 1, 4)), DigitsVal(Sub(datePart, 6, 7)),
                      DigitsVal(Sub(datePart, 9, 10)), DigitsVal(Sub(hms, 1, 2)),
                      DigitsVal(Sub(hms, 4, 5)), DigitsVal(Sub(hms, 7, 8)),
                      frac[2], zone[2])
        ELSE NoTime

ParseOutlookDate(received) == ParseIso(ReplaceZ(received))

ParseDate(p, date_str) ==
    IF p = "gmail" THEN ParseGmailDate(date_str) ELSE ParseOutlookDate(date_str)

(***************************************************************************)
(* categorize_senders                                                      *)
(***************************************************************************)
\* The categories dict's keys, in the order the dict literal gives them.
CategoryKeys(p) ==
    IF p = "gmail"
    THEN <<"promotional", "marketing", "never_opened", "rarely_opened",
           "old_unread", "bulk_senders">>
    ELSE <<"marketing", "never_opened", "rarely_opened", "old_unread", "bulk_senders">>

NEVER_OPENED_MIN == 5
RARELY_OPENED_MIN == 3
BULK_MIN == 20
OLD_DAYS == 30

\* stats["read_rate"] < 0.2, the rate being <<numerator, denominator>> (for the
\* small counts of a mailbox the float quotient compares like the fraction)
RateBelowFifth(rate) == rate[1] * 5 < rate[2]

\* stats["read_rate"] > 0
RatePositive(rate) == rate[1] > 0

\* a < b on <<seconds, microseconds>>
TimeLess(a, b) == a[1] < b[1] \/ (a[1] = b[1] /\ a[2] < b[2])

\* now - timedelta(days=30)
ThirtyDaysAgo(t) == <<t[1] - OLD_DAYS * 86400, t[2]>>

\* An inner loop that takes a timestamp it cannot read for an old one.
IsOldUnread_UnparsedIsOld(p, email, t) ==
    /\ ~email.isRead
    /\ LET parsed == ParseDate(p, Get(email.date, ""))
       IN  ~parsed.ok \/ TimeLess(<<parsed.naive, parsed.micro>>, ThirtyDaysAgo(t))

\* Whether the inner loop appends the email to old_unread_emails.
IsOldUnread(p, email, t) ==
    /\ ~email.isRead
    /\ Get(email.date, "") # ""
    /\ LET parsed == ParseDate(p, Get(email.date, ""))
       IN  parsed.ok /\ TimeLess(<<parsed.naive, parsed.micro>>, ThirtyDaysAgo(t))

\* old_unread_emails, for one sender
RECURSIVE OldUnreadOf(_, _, _, _)
OldUnreadOf(p, mails, refs, t) ==
    IF refs = <<>> THEN <<>>
    ELSE (IF IsOldUnread(p, mails[Head(refs)], t) THEN <<Head(refs)>> ELSE <<>>)
         \o OldUnreadOf(p, mails, Tail(refs), t)

\* old_stats: a copy of stats with emails and total replaced
OldStats(st, old) == [st EXCEPT !.emails = old, !.total = Len(old)]

\* The read-rate buckets with the rarely-opened bound taken inclusively.
RuleHolds_FifthIncluded(p, key, st) ==
    CASE key = "never_opened"  -> st.total >= NEVER_OPENED_MIN /\ st.read = 0
      [] key = "rarely_opened" -> /\ ~(st.total >= NEVER_OPENED_MIN /\ st.read = 0)
                                  /\ st.total >= RARELY_OPENED_MIN
                                  /\ st.read_rate[1] * 5 <= st.read_rate[2]
                                  /\ RatePositive(st.read_rate)
      [] OTHER                 -> FALSE

\* The sender-level rules with the bulk rule taking more than BULK_MIN only.
RuleHolds_BulkAbove(p, key, st) ==
    CASE key = "promotional"   -> p = "gmail" /\ st.is_promotional
      [] key = "marketing"     -> /\ ~(p = "gmail" /\ st.is_promotional)
                                  /\ st.marketing_score >= MARKETING_THRESHOLD
      [] key = "bulk_senders"  -> st.total > BULK_MIN
      [] OTHER                 -> FALSE

\* The read-rate buckets with the rarely-opened rule taking a rate of zero too.
RuleHolds_ZeroRateIncluded(p, key, st) ==
    CASE key = "never_opened"  -> st.total >= NEVER_OPENED_MIN /\ st.read = 0
      [] key = "rarely_opened" -> /\ ~(st.total >= NEVER_OPENED_MIN /\ st.read = 0)
                                  /\ st.total >= RARELY_OPENED_MIN
                                  /\ RateBelowFifth(st.read_rate)
      [] OTHER                 -> FALSE

\* Whether the sender-level rule of category key takes the sender.
RuleHolds(p, key, st) ==
    CASE key = "promotional"   -> p = "gmail" /\ st.is_promotional
      [] key = "marketing"     -> /\ ~(p = "gmail" /\ st.is_promotional)
                                  /\ st.marketing_score >= MARKETING_THRESHOLD
      [] key = "never_opened"  -> st.total >= NEVER_OPENED_MIN /\ st.read = 0
      [] key = "rarely_opened" -> /\ ~(st.total >= NEVER_OPENED_MIN /\ st.read = 0)
                                  /\ st.total >= RARELY_OPENED_MIN
                                  /\ RateBelowFifth(st.read_rate)
                                  /\ RatePositive(st.read_rate)
      [] key = "bulk_senders"  -> st.total >= BULK_MIN
      [] OTHER                 -> FALSE

\* What the sender's iteration appends to category key: nothing or one
\* (addr, stats) pair.
Appended(p, key, mails, st, t) ==
    IF key = "old_unread"
    THEN LET old == OldUnreadOf(p, mails, st.emails, t)
         IN  IF old # <<>> THEN << <<st.addr, OldStats(st, old)>> >> ELSE <<>>
    ELSE IF RuleHolds(p, key, st) THEN << <<st.addr, st>> >> ELSE <<>>

\* A loop over the senders that ends at the first sender the category does not
\* take.
RECURSIVE Members_StopAtFirstMiss(_, _, _, _, _)
Members_StopAtFirstMiss(p, key, mails, stats_seq, t) ==
    IF stats_seq = <<>> THEN <<>>
    ELSE IF Appended(p, key, mails, Head(stats_seq), t) = <<>> THEN <<>>
    ELSE Appended(p, key, mails, Head(stats_seq), t)
         \o Members_StopAtFirstMiss(p, key, mails, Tail(stats_seq), t)

\* The category's senders list after the loop over sender_stats.items().
RECURSIVE Members(_, _, _, _, _)
Members(p, key, mails, stats_seq, t) ==
    IF stats_seq = <<>> THEN <<>>
    ELSE Appended(p, key, mails, Head(stats_seq), t)
         \o Members(p, key, mails, Tail(stats_seq), t)

\* A descending sort that puts the later of two equal totals first.
RECURSIVE InsertDesc_TiesReversed(_, _)
InsertDesc_TiesReversed(sorted, x) ==
    IF sorted = <<>> THEN <<x>>
    ELSE IF Head(sorted)[2].total > x[2].total
         THEN <<Head(sorted)>> \o InsertDesc_TiesReversed(Tail(sorted), x)
         ELSE <<x>> \o sorted

\* list.sort(key=total, reverse=True): descending, equal totals in their order
RECURSIVE InsertDesc(_, _)
InsertDesc(sorted, x) ==
    IF sorted = <<>> THEN <<x>>
    ELSE IF Head(sorted)[2].total >= x[2].total
         THEN <<Head(sorted)>> \o InsertDesc(Tail(sorted), x)
         ELSE <<x>> \o sorted

RECURSIVE SortDesc(_)
SortDesc(members) ==
    IF members = <<>> THEN <<>>
    ELSE InsertDesc(SortDesc(SubSeq(members, 1, Len(members) - 1)), members[Len(members)])

RECURSIVE SumTotals(_)
SumTotals(members) ==
    IF members = <<>> THEN 0 ELSE Head(members)[2].total + SumTotals(Tail(members))

\* categories, as the sequence of [key, senders, email_count] in dict order
categorize_senders(p, mails, stats_seq, t) ==
    [k \in 1..Len(CategoryKeys(p)) |->
        LET members == Members(p, CategoryKeys(p)[k], mails, stats_seq, t)
        IN  [key |-> CategoryKeys(p)[k],
             senders |-> SortDesc(members),
             email_count |-> SumTotals(members)]]

(***************************************************************************)
(* delete_emails_batch                                                     *)
(***************************************************************************)
\* What one mutation request can come to: the provider accepts it, the provider
\* rejects it, or the call raises (a transport error).  The Gmail client raises
\* on a rejection too (execute() raises HttpError); the Outlook script reads
\* the rejection off the status code.
Outcomes == {"ok", "rejected", "raised"}

SLEEP_EVERY == 100

\* The branches of the request taken the other way round.
RequestFor_Swapped(trash, id) ==
    [kind |-> IF trash THEN "delete" ELSE "trash", id |-> id]

\* The request the iteration sends for message id.
RequestFor(trash, id) ==
    [kind |-> IF trash THEN "trash" ELSE "delete", id |-> id]

\* Whether the iteration's try block runs to its end (counting, the progress
\* line, the rate-limit sleep) or is left for the except clause.
ReachesEndOfTry(p, outcome) ==
    IF p = "gmail" THEN outcome = "ok" ELSE outcome # "raised"

\* Whether the iteration for position n (1-based) sleeps.
SleepsAt(p, outcome, n) == ReachesEndOfTry(p, outcome) /\ n % SLEEP_EVERY = 0

\* <<success, failed>> after the iteration: success += 1 when the request went
\* through, failed += 1 in the else branch (Outlook) or the except clause.
CountsAfter_RaiseUncounted(outcome, s, f) ==
    IF outcome = "ok" THEN <<s + 1, f>>
    ELSE IF outcome = "rejected" THEN <<s, f + 1>>
    ELSE <<s, f>>

CountsAfter(outcome, s, f) ==
    IF outcome = "ok" THEN <<s + 1, f>> ELSE <<s, f + 1>>

\* The number of messages done with after the iteration for message n + 1 of
\* len: the except clause swallows the exception and enumerate() goes on.
NextIndex_FailFast(outcome, n, len) ==
    IF outcome = "raised" THEN len ELSE n + 1

NextIndex(outcome, n, len) == n + 1

\* One iteration of the loop over emails.
DeleteStep ==
    /\ pc = "deleting"
    /\ i < Len(batch)
    /\ \E outcome \in Outcomes :
         /\ issued' = Append(issued, RequestFor(to_trash, batch[i + 1]))
         /\ success' = CountsAfter(outcome, success, failed)[1]
         /\ failed'  = CountsAfter(outcome, success, failed)[2]
         /\ slept'   = IF SleepsAt(provider, outcome, i + 1)
                       THEN slept \cup {i + 1} ELSE slept
         /\ i' = NextIndex(outcome, i, Len(batch))
    /\ UNCHANGED <<provider, requested, classifierVars, pc, op, batch, to_trash, analysisVars, menuVars>>

\* return success, failed
DeleteReturn ==
    /\ pc = "deleting"
    /\ i = Len(batch)
    /\ pc' = "returned"
    /\ UNCHANGED <<provider, requested, classifierVars, op, batchVars, analysisVars, menuVars>>

(***************************************************************************)
(* delete_emails_batch called on its own                                   *)
(***************************************************************************)
MaxSmallBatch == 3
MaxBatchExtra == 1
MaxId == 2

\* n ids, all different, not in ascending order
Descending(n) == [k \in 1..n |-> n + 1 - k]

RECURSIVE SeqsUpTo(_, _)
SeqsUpTo(S, n) ==
    IF n = 0 THEN {<<>>}
    ELSE LET shorter == SeqsUpTo(S, n - 1)
         IN  shorter \cup { Append(q, x) : q \in { r \in shorter : Len(r) = n - 1 }, x \in S }

NoDuplicates(seq) == \A a, b \in 1..Len(seq) : seq[a] = seq[b] => a = b

BatchInputs ==
    SeqsUpTo(1..MaxId, MaxSmallBatch) \cup {Descending(SLEEP_EVERY + MaxBatchExtra)}

InitBatch ==
    /\ provider \in Providers
    /\ requested = {}
    /\ arg = NoEmail /\ ret = NoResult
    /\ pc = "deleting" /\ op = "call"
    /\ batch \in BatchInputs
    /\ to_trash \in BOOLEAN
    /\ i = 0 /\ success = 0 /\ failed = 0 /\ issued = <<>> /\ slept = {}
    /\ NoAnalysis
    /\ MenuIdle

NextBatch == DeleteStep \/ DeleteReturn

SpecBatch == InitBatch /\ [][NextBatch]_vars

\* The loop is straight-line code over a finite list and every request has a
\* timeout, so an iteration that can run does run.
FairSpecBatch == SpecBatch /\ WF_vars(NextBatch)

(***************************************************************************)
(* Claims about delete_emails_batch, checked under SpecBatch               *)
(***************************************************************************)
\* C1: whatever the outcomes were, the call returns counters that add up to the
\* number of messages it was given.
C1_CountsAddUp ==
    (pc = "returned" /\ op = "call") => success + failed = Len(batch)

\* C1's case: a call that returned after a mix of successes and failures.
C1_Witness ==
    /\ pc = "returned" /\ op = "call"
    /\ Len(batch) = 3 /\ success = 1 /\ failed = 2

\* C2: at every moment the requests sent are exactly one per message processed,
\* in input order (none skipped, none repeated, whatever failed before), and the
\* call goes on to return, having sent one for every message.
C2_OneRequestPerMessageInOrder ==
    /\ [](pc = "deleting" =>
            issued = [k \in 1..i |-> RequestFor(to_trash, batch[k])])
    /\ []((pc = "returned" /\ op = "call") =>
            issued = [k \in 1..Len(batch) |-> RequestFor(to_trash, batch[k])])
    /\ <>(pc = "returned")

\* C2's case: a returned call in which a request failed and later ones were
\* still sent.
C2_Witness ==
    /\ pc = "returned" /\ op = "call"
    /\ Len(batch) = 3 /\ Len(issued) = 3 /\ failed >= 1 /\ success >= 1
    /\ batch[1] # batch[2]

\* C3: once a request beyond a 100th message has been sent, the call has slept
\* after that 100th message, whatever its outcome was.
C3_SleepsAfterEveryHundredth ==
    \A k \in 1..Len(issued) :
        (k % SLEEP_EVERY = 0 /\ Len(issued) > k) => k \in slept

(***************************************************************************)
(* interactive_menu, cleanup_category, cleanup_selected_senders            *)
(***************************************************************************)
SHOW_LIMIT == 15

\* int(s): surrounding whitespace, an optional sign, decimal digits with single
\* underscores between them; <<TRUE, value>>, or <<FALSE, 0>> for ValueError.
RECURSIVE RemoveChar(_, _)
RemoveChar(s, c) ==
    IF s = "" THEN ""
    ELSE (IF CharAt(s, 1) = c THEN "" ELSE CharAt(s, 1)) \o RemoveChar(Tail(s), c)

\* A conversion that takes whatever is not a number for 1.
ParseInt_Lenient(s) ==
    IF AllDigits(Strip(s)) THEN <<TRUE, DigitsVal(Strip(s))>> ELSE <<TRUE, 1>>

ParseInt(s) ==
    LET t      == Strip(s)
        signed == t # "" /\ CharAt(t, 1) \in {"+", "-"}
        body   == IF signed THEN Tail(t) ELSE t
        wellFormed ==
            /\ body # ""
            /\ IsDigit(CharAt(body, 1)) /\ IsDigit(CharAt(body, Len(body)))
            /\ \A k \in 1..Len(body) : IsDigit(CharAt(body, k)) \/ CharAt(body, k) = "_"
            /\ ~Contains(body, "__")
        value  == DigitsVal(RemoveChar(body, "_"))
    IN  IF wellFormed
        THEN <<TRUE, IF signed /\ CharAt(t, 1) = "-" THEN 0 - value ELSE value>>
        ELSE <<FALSE, 0>>

\* choice.isdigit()
IsDigitString(s) == AllDigits(s)

\* list[start:stop] for any integers start and stop
PySlice(list, start, stop) ==
    LET n  == Len(list)
        lo == IF start < 0 THEN Max(start + n, 0) ELSE IF start > n THEN n ELSE start
        hi == IF stop < 0 THEN Max(stop + n, 0) ELSE IF stop > n THEN n ELSE stop
    IN  IF lo >= hi THEN <<>> ELSE SubSeq(list, lo + 1, hi)

\* menu_items: the places in categories of the categories that have senders
RECURSIVE NonEmptyPlaces(_, _)
NonEmptyPlaces(cats, k) ==
    IF k > Len(cats) THEN <<>>
    ELSE (IF cats[k].senders # <<>> THEN <<k>> ELSE <<>>) \o NonEmptyPlaces(cats, k + 1)

menu_items(cats) == NonEmptyPlaces(cats, 1)

\* display_category's return value: the first show_limit senders
display_category(category) == PySlice(category.senders, 0, SHOW_LIMIT)

\* [displayed[n-1] for n in nums if 0 < n <= len(displayed)]
RECURSIVE PickEach(_, _)
PickEach(displayed, nums) ==
    IF nums = <<>> THEN <<>>
    ELSE (IF 0 < Head(nums) /\ Head(nums) <= Len(displayed)
          THEN <<displayed[Head(nums)]>> ELSE <<>>)
         \o PickEach(displayed, Tail(nums))

\* selected, for the expression typed (already stripped and lowercased)
ResolveSelection(displayed, expr) ==
    IF expr = "all" THEN displayed
    ELSE IF Contains(expr, "-") /\ ~Contains(expr, ",")
    THEN LET parts == SplitOn(expr, {"-"})
             ints  == [k \in 1..Len(parts) |-> ParseInt(parts[k])]
         IN  IF Len(parts) = 2 /\ ints[1][1] /\ ints[2][1]
             THEN PySlice(displayed, ints[1][2] - 1, ints[2][2])
             ELSE <<>>
    ELSE LET parts == SplitOn(expr, {","})
             ints  == [k \in 1..Len(parts) |-> ParseInt(parts[k])]
         IN  IF \A k \in 1..Len(parts) : ints[k][1]
             THEN PickEach(displayed, [k \in 1..Len(parts) |-> ints[k][2]])
             ELSE <<>>

\* all_emails.extend(stats["emails"]) over the senders, as message ids
RECURSIVE AllEmailsOf(_, _)
AllEmailsOf(mails, senders) ==
    IF senders = <<>> THEN <<>>
    ELSE [k \in 1..Len(Head(senders)[2].emails) |-> mails[Head(senders)[2].emails[k]].id]
         \o AllEmailsOf(mails, Tail(senders))

\* every category's senders, one after the other in dict order
RECURSIVE AllSenders(_)
AllSenders(cats) ==
    IF cats = <<>> THEN <<>> ELSE Head(cats).senders \o AllSenders(Tail(cats))

\* A deduplication that keeps the last occurrence of every id instead.
RECURSIVE LastOccurrences(_, _)
LastOccurrences(ids, seen) ==
    IF ids = <<>> THEN <<>>
    ELSE IF Head(ids) \in seen \/ \E k \in 1..Len(Tail(ids)) : Tail(ids)[k] = Head(ids)
    THEN LastOccurrences(Tail(ids), seen)
    ELSE <<Head(ids)>> \o LastOccurrences(Tail(ids), seen)

\* if email["id"] not in all_email_ids: add it, append the email
RECURSIVE FirstOccurrences(_, _)
FirstOccurrences(ids, seen) ==
    IF ids = <<>> THEN <<>>
    ELSE IF Head(ids) \in seen THEN FirstOccurrences(Tail(ids), seen)
    ELSE <<Head(ids)>> \o FirstOccurrences(Tail(ids), seen \cup {Head(ids)})

\* auto-clean's all_emails
AutoCleanEmails(mails, cats) == FirstOccurrences(AllEmailsOf(mails, AllSenders(cats)), {})

\* A prompt that goes on unless the answer is 'no'.
Confirmed_UnlessNo(answer) == Lower(Strip(answer)) # "no"

\* confirm != 'yes' after .strip().lower()
Confirmed(answer) == Lower(Strip(answer)) = "yes"

\* The locals of a cleanup operation, set as it goes from the menu towards its
\* confirmation prompt.
StartOperation(kind, category, expr, mails) ==
    /\ op' = kind
    /\ cat' = category
    /\ sel' = expr
    /\ confirm' = NoInput
    /\ batch' = mails
    /\ to_trash' = TRUE
    /\ i' = 0 /\ success' = 0 /\ failed' = 0 /\ issued' = <<>> /\ slept' = {}

\* The operation is over and its locals are gone: the loop is at the menu again.
BackAtMenu ==
    /\ pc' = "menu"
    /\ StartOperation("none", 0, NoInput, <<>>)

(***************************************************************************)
(* What the user types                                                     *)
(***************************************************************************)
MenuInputs == {"q", "s", "a", " A ", "1", "2", "3", "7", "0", "x", ""}
SubMenuInputs == {"1", " 2", "3", ""}
Selections == {"all", "1", "1,1", "2, 1", "1-2", "0-10", "2-1", "", "abc", "1-x",
               "1,x", "1-", "-2", "1-2-3"}
Answers == {"yes", " YES ", "no", "y", ""}

(***************************************************************************)
(* main                                                                    *)
(***************************************************************************)
\* datetime.utcnow() when the senders are categorised: 2024-03-01 12:00:00.25
Nows == { <<DaysFromCivil(2024, 3, 1) * 86400 + 12 * 3600, 250000>> }

\* if not emails: print("No emails found!"); return
NoEmails ==
    /\ pc = "fetched"
    /\ emails = <<>>
    /\ pc' = "exit"
    /\ UNCHANGED <<provider, requested, classifierVars, op, batchVars, analysisVars, menuVars>>

\* sender_stats = analyze_emails(emails)
Analyze ==
    /\ pc = "fetched"
    /\ emails # <<>>
    /\ sender_stats' = analyze_emails(provider, emails)
    /\ pc' = "analyzed"
    /\ UNCHANGED <<provider, requested, classifierVars, op, batchVars, emails, now, categories, menuVars>>

\* categories = categorize_senders(sender_stats), then the summary and the menu
Categorize ==
    /\ pc = "analyzed"
    /\ \E t \in Nows :
         /\ now' = t
         /\ categories' = categorize_senders(provider, emails, sender_stats, t)
    /\ pc' = "menu"
    /\ UNCHANGED <<provider, requested, classifierVars, op, batchVars, emails, sender_stats, menuVars>>

\* choice == 'q'
MenuQuit ==
    /\ pc = "menu"
    /\ \E typed \in MenuInputs : Lower(Strip(typed)) = "q"
    /\ pc' = "exit"
    /\ UNCHANGED <<provider, requested, classifierVars, op, batchVars, analysisVars, menuVars>>

\* choice == 's': the statistics are printed
MenuStatistics ==
    /\ pc = "menu"
    /\ \E typed \in MenuInputs : Lower(Strip(typed)) = "s"
    /\ UNCHANGED vars

\* choice == 'a': the auto-clean prompt
MenuAutoClean ==
    /\ pc = "menu"
    /\ \E typed \in MenuInputs : Lower(Strip(typed)) = "a"
    /\ StartOperation("auto", 0, NoInput, <<>>)
    /\ pc' = "confirm"
    /\ UNCHANGED <<provider, requested, classifierVars, analysisVars>>

\* Whether the choice names a menu item.
NamesMenuItem(choice) ==
    /\ IsDigitString(choice)
    /\ 1 <= DigitsVal(choice) /\ DigitsVal(choice) <= Len(menu_items(categories))

\* choice is the number of a menu item: the category is displayed
MenuCategory ==
    /\ pc = "menu"
    /\ \E typed \in MenuInputs :
         LET choice == Lower(Strip(typed)) IN
         /\ choice \notin {"q", "s", "a"}
         /\ NamesMenuItem(choice)
         /\ StartOperation("none", menu_items(categories)[DigitsVal(choice)], NoInput, <<>>)
    /\ pc' = "category"
    /\ UNCHANGED <<provider, requested, classifierVars, analysisVars>>

\* anything else: "Invalid option"
MenuInvalid ==
    /\ pc = "menu"
    /\ \E typed \in MenuInputs :
         LET choice == Lower(Strip(typed)) IN
         /\ choice \notin {"q", "s", "a"}
         /\ ~NamesMenuItem(choice)
    /\ UNCHANGED vars

\* sub_choice == '1': cleanup_category(service, cat) up to its prompt
SubCleanAll ==
    /\ pc = "category"
    /\ \E typed \in SubMenuInputs : Strip(typed) = "1"
    /\ LET all_emails == AllEmailsOf(emails, categories[cat].senders) IN
         IF all_emails = <<>>
         THEN BackAtMenu
         ELSE /\ StartOperation("category", cat, NoInput, all_emails)
              /\ pc' = "confirm"
    /\ UNCHANGED <<provider, requested, classifierVars, analysisVars>>

\* sub_choice == '2': the selection prompt
SubSelect ==
    /\ pc = "category"
    /\ \E typed \in SubMenuInputs : Strip(typed) = "2"
    /\ pc' = "select"
    /\ UNCHANGED <<provider, requested, classifierVars, op, batchVars, analysisVars, menuVars>>

\* any other sub_choice: back to the main menu
SubBack ==
    /\ pc = "category"
    /\ \E typed \in SubMenuInputs : Strip(typed) \notin {"1", "2"}
    /\ BackAtMenu
    /\ UNCHANGED <<provider, requested, classifierVars, analysisVars>>

\* The selection is typed and resolved; a non-empty one goes to
\* cleanup_selected_senders, up to its prompt.
Select ==
    /\ pc = "select"
    /\ \E typed \in Selections :
         LET selected   == ResolveSelection(display_category(categories[cat]),
                                            Lower(Strip(typed)))
             all_emails == AllEmailsOf(emails, selected)
         IN  IF selected = <<>> \/ all_emails = <<>>
             THEN BackAtMenu
             ELSE /\ StartOperation("selected", cat, typed, all_emails)
                  /\ pc' = "confirm"
    /\ UNCHANGED <<provider, requested, classifierVars, analysisVars>>

\* The answer to "Continue? (yes/no)" or "Type 'yes' to proceed": delete_emails_batch
\* is called (for auto-clean on the deduplicated emails of all categories), or
\* the operation is cancelled.
Confirm ==
    /\ pc = "confirm"
    /\ \E typed \in Answers :
         /\ confirm' = typed
         /\ pc' = IF Confirmed(typed) THEN "deleting" ELSE "cancelled"
         /\ batch' = IF Confirmed(typed) /\ op = "auto"
                     THEN AutoCleanEmails(emails, categories) ELSE batch
    /\ UNCHANGED <<provider, requested, classifierVars, op, to_trash, i, success, failed, issued,
                   slept, analysisVars, cat, sel>>

\* print("Cancelled."), and the menu again
Cancelled ==
    /\ pc = "cancelled"
    /\ BackAtMenu
    /\ UNCHANGED <<provider, requested, classifierVars, analysisVars>>

\* success, failed = delete_emails_batch(...); the counts are printed, and the
\* menu again
Report ==
    /\ pc = "returned"
    /\ op \in {"category", "selected", "auto"}
    /\ BackAtMenu
    /\ UNCHANGED <<provider, requested, classifierVars, analysisVars>>

(***************************************************************************)
(* A session: the mailboxes it is run on                                   *)
(***************************************************************************)
MaxEmails == 2

GmailTemplates == {
    [from |-> "Shop <news@shop.example>", subject |-> "New arrivals", snippet |-> "Spring is here",
     labelIds |-> {"CATEGORY_PROMOTIONS", "UNREAD"}, isRead |-> FALSE,
     date |-> "Mon, 01 Jan 2024 10:00:00 +0000"],
    [from |-> "newsletter@shein.com", subject |-> "Big Sale", snippet |-> "Click to unsubscribe",
     labelIds |-> {"UNREAD"}, isRead |-> FALSE,
     date |-> "Tue, 20 Feb 2024 10:00:00 +0000"],
    [from |-> "Bob <Bob@Example.org>", subject |-> "Lunch tomorrow?", snippet |-> "See you at noon",
     labelIds |-> {"INBOX"}, isRead |-> TRUE,
     date |-> "Fri, 23 Feb 2024 09:30:00 +0100"],
    [from |-> "bob@example.org", subject |-> "Re: invoice", snippet |-> "Attached",
     labelIds |-> {"INBOX", "UNREAD"}, isRead |-> FALSE,
     date |-> "Wed, 03 Jan 2024 08:00:00 +0000"],
    [from |-> "", subject |-> "(no subject)", snippet |-> "",
     labelIds |-> {"UNREAD"}, isRead |-> FALSE,
     date |-> "yesterday"] }

OutlookTemplates == {
    [address |-> "news@shop.example", name |-> "Shop", subject |-> "New arrivals",
     snippet |-> "Spring is here", isRead |-> FALSE, date |-> "2024-01-01T10:00:00Z"],
    [address |-> "newsletter@shein.com", name |-> "SHEIN", subject |-> "Big Sale",
     snippet |-> "Click to unsubscribe", isRead |-> FALSE, date |-> "2024-02-20T10:00:00Z"],
    [address |-> "Bob@Example.org", name |-> "Bob", subject |-> "Lunch tomorrow?",
     snippet |-> "See you at noon", isRead |-> TRUE, date |-> "2024-02-23T09:30:00Z"],
    [address |-> "bob@example.org", name |-> Absent, subject |-> "Re: invoice",
     snippet |-> "Attached", isRead |-> FALSE, date |-> "2024-01-03T08:00:00Z"],
    [address |-> Absent, name |-> Absent, subject |-> Absent,
     snippet |-> "", isRead |-> FALSE, date |-> "yesterday"] }

\* The id of the k-th fetched message: ids are unique.
MessageId(k) == 10 * k

\* The fetched email a template stands for, as the k-th message.
Fetched(p, t, k) ==
    IF p = "gmail"
    THEN [id |-> MessageId(k), from |-> t.from, address |-> Absent, name |-> Absent,
          subject |-> t.subject, snippet |-> t.snippet, date |-> t.date,
          isRead |-> t.isRead, labelIds |-> t.labelIds]
    ELSE [id |-> MessageId(k), from |-> Absent, address |-> t.address, name |-> t.name,
          subject |-> t.subject, snippet |-> t.snippet, date |-> t.date,
          isRead |-> t.isRead, labelIds |-> {}]

Templates(p) == IF p = "gmail" THEN GmailTemplates ELSE OutlookTemplates

Mailboxes(p) ==
    { [k \in 1..Len(q) |-> Fetched(p, q[k], k)] : q \in SeqsUpTo(Templates(p), MaxEmails) }

Init ==
    /\ provider \in Providers
    /\ requested = {}
    /\ arg = NoEmail /\ ret = NoResult
    /\ pc = "fetched" /\ op = "none"
    /\ BatchIdle
    /\ emails \in Mailboxes(provider)
    /\ now = <<0, 0>> /\ sender_stats = <<>> /\ categories = <<>>
    /\ MenuIdle

Next ==
    \/ NoEmails \/ Analyze \/ Categorize
    \/ MenuQuit \/ MenuStatistics \/ MenuAutoClean \/ MenuCategory \/ MenuInvalid
    \/ SubCleanAll \/ SubSelect \/ SubBack
    \/ Select \/ Confirm \/ Cancelled \/ Report
    \/ DeleteStep \/ DeleteReturn

Spec == Init /\ [][Next]_vars

(***************************************************************************)
(* A session whose requests the mailbox records                            *)
(***************************************************************************)
\* Report, with the mailbox keeping the ids the operation sent requests for.
ReportRecorded ==
    /\ pc = "returned"
    /\ op \in {"category", "selected", "auto"}
    /\ BackAtMenu
    /\ requested' = requested \cup { issued[k].id : k \in 1..Len(issued) }
    /\ UNCHANGED <<provider, classifierVars, analysisVars>>

RecordedNext ==
    \/ NoEmails \/ Analyze \/ Categorize
    \/ MenuQuit \/ MenuStatistics \/ MenuAutoClean \/ MenuCategory \/ MenuInvalid
    \/ SubCleanAll \/ SubSelect \/ SubBack
    \/ Select \/ Confirm \/ Cancelled \/ ReportRecorded
    \/ DeleteStep \/ DeleteReturn

RecordedSpec == Init /\ [][RecordedNext]_vars

(***************************************************************************)
(* Properties of a session                                                 *)
(***************************************************************************)
Elements(seq) == { seq[k] : k \in 1..Len(seq) }

\* The place of x's first occurrence in seq.
FirstIndex(seq, x) == CHOOSE k \in 1..Len(seq) : seq[k] = x /\ \A j \in 1..(k - 1) : seq[j] # x

\* Whether the sender's list holds messages in the order they arrived.
InArrivalOrder(refs) == \A a, b \in 1..Len(refs) : a < b => refs[a] < refs[b]

\* The places of message k in a sender's list.
PlacesOf(st, k) == { j \in 1..Len(st.emails) : st.emails[j] = k }

\* The senders whose list holds message k.
HoldersOf(k) == { s \in 1..Len(sender_stats) : PlacesOf(sender_stats[s], k) # {} }

\* C10: after analyze_emails every fetched email is in exactly one sender's
\* list, once, and that sender is keyed by the email's normalised sender
\* address (what parse_sender, or the lowercased Outlook address, gives);
\* the lists keep arrival order, no two records share a key, and every record
\* has read + unread = total = len(emails) >= 1 and read_rate = read / total
\* within [0, 1], the denominator never being 0.
C10_AnalyzeInvariants ==
    pc = "analyzed" =>
        /\ \A k \in 1..Len(emails) :
             /\ Cardinality(HoldersOf(k)) = 1
             /\ \A s \in HoldersOf(k) :
                  /\ Cardinality(PlacesOf(sender_stats[s], k)) = 1
                  /\ sender_stats[s].addr = SenderOf(provider, emails[k])[1]
        /\ \A s, r \in 1..Len(sender_stats) :
             sender_stats[s].addr = sender_stats[r].addr => s = r
        /\ \A s \in 1..Len(sender_stats) :
             LET st == sender_stats[s] IN
             /\ InArrivalOrder(st.emails)
             /\ Elements(st.emails) \subseteq 1..Len(emails)
             /\ st.read + st.unread = st.total
             /\ st.total = Len(st.emails)
             /\ st.total >= 1
             /\ st.read_rate[2] > 0
             /\ st.read_rate[1] * st.total = st.read * st.read_rate[2]
             /\ 0 <= st.read_rate[1] /\ st.read_rate[1] <= st.read_rate[2]

\* Two messages whose From headers differ in form and case are one sender's,
\* one of them read.
C10_Witness ==
    /\ pc = "analyzed"
    /\ Len(emails) = 2
    /\ Len(sender_stats) = 1
    /\ sender_stats[1].emails = <<1, 2>>
    /\ sender_stats[1].read = 1 /\ sender_stats[1].unread = 1
    /\ sender_stats[1].read_rate = <<1, 2>>

\* C4: the list handed to delete_emails_batch holds each message id at most
\* once, on every cleanup path and for every selection expression (the
\* fetched messages having unique ids).
C4_DeleteSetHasNoDuplicates ==
    (pc = "deleting" /\ op \in {"category", "selected", "auto"}) => NoDuplicates(batch)

\* What auto-clean walks: the emails of every category's senders, the
\* categories in dict order.
AutoCleanWalk == AllEmailsOf(emails, AllSenders(categories))

\* C5: auto-clean's list holds every message of every populated category
\* exactly once, in the order of the first encounters of the walk over the
\* categories; deduplicating a list without duplicate ids (auto-clean's own
\* result, or any list handed to the executor) gives that list back.
C5_DedupKeepsFirstOccurrences ==
    /\ (pc = "deleting" /\ op = "auto") =>
          /\ NoDuplicates(batch)
          /\ Elements(batch) = Elements(AutoCleanWalk)
          /\ \A a, b \in 1..Len(batch) :
                a < b => FirstIndex(AutoCleanWalk, batch[a]) < FirstIndex(AutoCleanWalk, batch[b])
          /\ FirstOccurrences(batch, {}) = batch
    /\ (pc = "deleting" /\ NoDuplicates(batch)) => FirstOccurrences(batch, {}) = batch

\* Auto-clean runs on a walk that meets its first message again after
\* another one.
C5_Witness ==
    /\ pc = "deleting" /\ op = "auto"
    /\ Len(AutoCleanWalk) = 3
    /\ AutoCleanWalk[1] = AutoCleanWalk[3] /\ AutoCleanWalk[1] # AutoCleanWalk[2]
    /\ batch = <<AutoCleanWalk[1], AutoCleanWalk[2]>>
    /\ i = Len(batch)

\* Whether a cleanup operation has been started from the menu.
InOperation == op \in {"category", "selected", "auto"}

\* C6, as stated: requests are issued only when the answer to the
\* confirmation prompt was 'yes'.
C6_OnlyTheAnswerYes ==
    (InOperation /\ issued # <<>>) => confirm = "yes"

\* C6, amended: requests are issued only when the answer to the prompt, with
\* surrounding whitespace stripped and lowercased, was 'yes'; an operation
\* cancelled on any other answer has issued no request.
C6_NoMutationUnlessConfirmed ==
    /\ (InOperation /\ (pc = "deleting" \/ issued # <<>>)) => Lower(Strip(confirm)) = "yes"
    /\ (InOperation /\ pc = "cancelled") =>
          (Lower(Strip(confirm)) # "yes" /\ issued = <<>> /\ i = 0 /\ success = 0 /\ failed = 0)

\* A selected-senders cleanup answered " YES " has sent all its requests.
C6_Witness ==
    /\ pc = "returned" /\ op = "selected"
    /\ confirm = " YES "
    /\ batch # <<>> /\ Len(issued) = Len(batch)

(***************************************************************************)
(* analyze_emails and categorize_senders on mailboxes with many messages   *)
(* per sender                                                              *)
(***************************************************************************)
MaxSenders == 2

\* count messages of one kind: read or unread, with the Date header Gmail
\* stores and the receivedDateTime Graph gives for it
Block(count, isRead, gmail_date, outlook_date) ==
    [count |-> count, isRead |-> isRead, gmail_date |-> gmail_date,
     outlook_date |-> outlook_date]

\* What one sender has sent: the From header (Gmail) or the emailAddress object
\* (Outlook), the content of the messages, and the messages in arrival order.
SenderProfiles == {
    [from |-> "Shop <news@shop.example>", address |-> "news@shop.example", name |-> "Shop",
     subject |-> "New arrivals", snippet |-> "Spring is here",
     labelIds |-> {"CATEGORY_PROMOTIONS"},
     blocks |-> << Block(6, FALSE, "Mon, 01 Jan 2024 10:00:00 +0000", "2024-01-01T10:00:00Z") >>],
    [from |-> "newsletter@shein.com", address |-> "newsletter@shein.com", name |-> Absent,
     subject |-> "Big Sale", snippet |-> "Click to unsubscribe", labelIds |-> {},
     blocks |-> << Block(1, FALSE, "Thu, 04 Jan 2024 08:00:00 +0000", "2024-01-04T08:00:00Z"),
                   Block(1, FALSE, "Wed, 31 Jan 2024 13:00:00 +0200", "2024-01-31T11:00:00Z"),
                   Block(1, FALSE, "31 Jan 2024 15:00:00 +0000", "2024-01-31T15:00:00Z"),
                   Block(1, TRUE, "Tue, 20 Feb 2024 10:00:00 +0000", "2024-02-20T10:00:00Z") >>],
    [from |-> "\"Bob B\" <Bob@Example.org>", address |-> "Bob@Example.org", name |-> "Bob B",
     subject |-> "Lunch tomorrow?", snippet |-> "See you at noon", labelIds |-> {"INBOX"},
     blocks |-> << Block(1, FALSE, "Wed, 03 Jan 2024 08:00:00 +0000", "2024-01-03T08:00:00Z"),
                   Block(1, TRUE, "Fri, 23 Feb 2024 09:30:00 +0100", "2024-02-23T08:30:00Z"),
                   Block(4, FALSE, "Mon, 26 Feb 2024 09:30:00 +0100", "2024-02-26T08:30:00Z") >>],
    [from |-> "Deals <deals@bulk.example>", address |-> "deals@bulk.example", name |-> "",
     subject |-> "Sale", snippet |-> "", labelIds |-> {},
     blocks |-> << Block(5, TRUE, "Thu, 01 Feb 2024 10:00:00 +0000", "2024-02-01T10:00:00Z"),
                   Block(15, FALSE, "Tue, 27 Feb 2024 10:00:00 +0000", "2024-02-27T10:00:00Z") >>],
    [from |-> "Mailer Daemon", address |-> "MAILER@Host.Example", name |-> "Mailer Daemon",
     subject |-> "Report", snippet |-> "", labelIds |-> {"INBOX"},
     blocks |-> << Block(19, FALSE, "yesterday", "yesterday") >>],
    [from |-> "", address |-> Absent, name |-> Absent,
     subject |-> Absent, snippet |-> "", labelIds |-> {},
     blocks |-> << Block(1, TRUE, "", ""),
                   Block(4, FALSE, "", "") >>] }

\* One message of a block, before it is given its id.
BlockMessage(p, profile, b) ==
    IF p = "gmail"
    THEN [from |-> profile.from, subject |-> Get(profile.subject, ""),
          snippet |-> profile.snippet, date |-> b.gmail_date, isRead |-> b.isRead,
          labelIds |-> profile.labelIds \cup (IF b.isRead THEN {} ELSE {"UNREAD"})]
    ELSE [address |-> profile.address, name |-> profile.name, subject |-> profile.subject,
          snippet |-> profile.snippet, date |-> b.outlook_date, isRead |-> b.isRead]

\* The messages of the blocks, in order.
RECURSIVE BlockMessages(_, _, _)
BlockMessages(p, profile, blocks) ==
    IF blocks = <<>> THEN <<>>
    ELSE [k \in 1..Head(blocks).count |-> BlockMessage(p, profile, Head(blocks))]
         \o BlockMessages(p, profile, Tail(blocks))

\* The messages of the senders, one sender after the other.
RECURSIVE ProfileMessages(_, _)
ProfileMessages(p, profiles) ==
    IF profiles = <<>> THEN <<>>
    ELSE BlockMessages(p, Head(profiles), Head(profiles).blocks)
         \o ProfileMessages(p, Tail(profiles))

\* The mailboxes of one to MaxSenders different senders.
ProfileMailboxes(p) ==
    { LET q == ProfileMessages(p, profiles)
      IN  [k \in 1..Len(q) |-> Fetched(p, q[k], k)] :
        profiles \in { r \in SeqsUpTo(SenderProfiles, MaxSenders) :
                          r # <<>> /\ NoDuplicates(r) } }

InitCategorize ==
    /\ provider \in Providers
    /\ requested = {}
    /\ arg = NoEmail /\ ret = NoResult
    /\ pc = "fetched" /\ op = "none"
    /\ BatchIdle
    /\ emails \in ProfileMailboxes(provider)
    /\ now = <<0, 0>> /\ sender_stats = <<>> /\ categories = <<>>
    /\ MenuIdle

NextCategorize == Analyze \/ Categorize

SpecCategorize == InitCategorize /\ [][NextCategorize]_vars

(***************************************************************************)
(* Properties of the analysis and the categories                           *)
(***************************************************************************)
\* The instant a message's timestamp denotes, <<seconds, microseconds>> UTC:
\* the wall-clock reading less the UTC offset it is written with.
Instant(email) ==
    LET parsed == ParseDate(provider, Get(email.date, ""))
    IN  <<parsed.naive - parsed.offset * 60, parsed.micro>>

HasTimestamp(email) == Get(email.date, "") # ""

Parseable(email) == HasTimestamp(email) /\ ParseDate(provider, Get(email.date, "")).ok

\* The sender's messages that carry a timestamp.
Dated(st) == { k \in Elements(st.emails) : HasTimestamp(emails[k]) }

\* C11: after analyze_emails, a sender's oldest is the timestamp of its
\* earliest message in time and its newest that of its latest message in
\* time (senders with at least one timestamp, all of them in the provider's
\* format).
C11_OldestNewestAreEarliestLatest ==
    pc = "analyzed" =>
        \A s \in 1..Len(sender_stats) :
            LET st == sender_stats[s] IN
            (Dated(st) # {} /\ \A k \in Dated(st) : Parseable(emails[k])) =>
                /\ \E lo \in Dated(st) :
                     /\ st.oldest = emails[lo].date
                     /\ \A k \in Dated(st) : ~TimeLess(Instant(emails[k]), Instant(emails[lo]))
                /\ \E hi \in Dated(st) :
                     /\ st.newest = emails[hi].date
                     /\ \A k \in Dated(st) : ~TimeLess(Instant(emails[hi]), Instant(emails[k]))

\* The categories have been built.
Categorized == pc = "menu"

\* The members of category key, <<addr, stats>> in list order.
MembersOf(key) ==
    IF \E c \in 1..Len(categories) : categories[c].key = key
    THEN categories[CHOOSE c \in 1..Len(categories) : categories[c].key = key].senders
    ELSE <<>>

\* Whether the sender is a member of category key.
InCategory(key, addr) == \E m \in 1..Len(MembersOf(key)) : MembersOf(key)[m][1] = addr

\* C12: a sender is in never_opened exactly when total >= 5 and read = 0, and
\* in rarely_opened exactly when it is not in never_opened, total >= 3 and
\* 0 < read / total < 0.2; no sender is in both.
C12_ReadRateBuckets ==
    Categorized =>
        \A s \in 1..Len(sender_stats) :
            LET st == sender_stats[s] IN
            /\ InCategory("never_opened", st.addr) <=> (st.total >= 5 /\ st.read = 0)
            /\ InCategory("rarely_opened", st.addr) <=>
                  /\ ~InCategory("never_opened", st.addr)
                  /\ st.total >= 3
                  /\ 0 < st.read /\ 5 * st.read < st.total
            /\ ~(InCategory("never_opened", st.addr) /\ InCategory("rarely_opened", st.addr))

\* A sender with total = 6, read = 0 in never_opened only, beside a sender
\* with total = 4, read = 1 in neither bucket.
C12_Witness ==
    /\ Categorized
    /\ \E s, r \in 1..Len(sender_stats) :
         /\ sender_stats[s].total = 6 /\ sender_stats[s].read = 0
         /\ InCategory("never_opened", sender_stats[s].addr)
         /\ ~InCategory("rarely_opened", sender_stats[s].addr)
         /\ sender_stats[r].total = 4 /\ sender_stats[r].read = 1
         /\ ~InCategory("never_opened", sender_stats[r].addr)
         /\ ~InCategory("rarely_opened", sender_stats[r].addr)

\* C13: a sender is in promotional exactly when is_promotional, in marketing
\* exactly when not is_promotional and marketing_score >= 3 (never in both),
\* and in bulk_senders exactly when total >= 20, whatever its read rate and
\* its other memberships.
C13_SenderLevelRules ==
    Categorized =>
        \A s \in 1..Len(sender_stats) :
            LET st == sender_stats[s] IN
            /\ InCategory("promotional", st.addr) <=> st.is_promotional
            /\ InCategory("marketing", st.addr) <=>
                  (~st.is_promotional /\ st.marketing_score >= 3)
            /\ ~(InCategory("promotional", st.addr) /\ InCategory("marketing", st.addr))
            /\ InCategory("bulk_senders", st.addr) <=> st.total >= 20

\* A sender of exactly 20 messages, a quarter of them read, is in bulk_senders
\* and in marketing at once, beside a promotional sender of fewer messages.
C13_Witness ==
    /\ Categorized
    /\ \E s, r \in 1..Len(sender_stats) :
         /\ sender_stats[s].total = 20 /\ sender_stats[s].read = 5
         /\ InCategory("bulk_senders", sender_stats[s].addr)
         /\ InCategory("marketing", sender_stats[s].addr)
         /\ sender_stats[r].is_promotional
         /\ InCategory("promotional", sender_stats[r].addr)
         /\ ~InCategory("bulk_senders", sender_stats[r].addr)

\* The sender's unread messages whose timestamp denotes an instant more than
\* 30 days before now, in arrival order.
TrulyOldUnread(st) ==
    SelectSeq(st.emails,
              LAMBDA k : /\ ~emails[k].isRead
                         /\ Parseable(emails[k])
                         /\ TimeLess(Instant(emails[k]), ThirtyDaysAgo(now)))

\* C14: a sender's old_unread entry holds exactly its unread messages whose
\* timestamp denotes an instant earlier than now minus 30 days, whatever UTC
\* offset it is written with; the entry's total is their number, and a sender
\* without such a message has no entry.
C14_OldUnreadIsByInstant ==
    Categorized =>
        \A s \in 1..Len(sender_stats) :
            LET st  == sender_stats[s]
                old == TrulyOldUnread(st)
            IN  IF old = <<>>
                THEN ~InCategory("old_unread", st.addr)
                ELSE \E m \in 1..Len(MembersOf("old_unread")) :
                        /\ MembersOf("old_unread")[m][1] = st.addr
                        /\ MembersOf("old_unread")[m][2].emails = old
                        /\ MembersOf("old_unread")[m][2].total = Len(old)

\* The date and time a timestamp is written with lie more than 30 days before
\* now.
WrittenLongAgo(email) ==
    LET parsed == ParseDate(provider, Get(email.date, ""))
    IN  TimeLess(<<parsed.naive, parsed.micro>>, ThirtyDaysAgo(now))

\* The messages of the old_unread entries.
OldUnreadMessages ==
    UNION { Elements(MembersOf("old_unread")[m][2].emails) :
              m \in 1..Len(MembersOf("old_unread")) }

\* C15: a message whose timestamp is empty or cannot be parsed is in no
\* old_unread entry, and categorize_senders still gives all its categories:
\* the unread messages with a readable timestamp written more than 30 days
\* ago are in old_unread, and the senders (those of the unreadable timestamps
\* too) are in the read-rate bucket their counts call for.
C15_UnparsedTimestampsAreSkipped ==
    Categorized =>
        /\ Len(categories) = Len(CategoryKeys(provider))
        /\ \A k \in OldUnreadMessages : Parseable(emails[k])
        /\ \A k \in 1..Len(emails) :
              (~emails[k].isRead /\ Parseable(emails[k]) /\ WrittenLongAgo(emails[k]))
                  => k \in OldUnreadMessages
        /\ \A s \in 1..Len(sender_stats) :
              (sender_stats[s].total >= 5 /\ sender_stats[s].read = 0)
                  => InCategory("never_opened", sender_stats[s].addr)

\* The first sender's messages are unread with a timestamp that cannot be
\* parsed: it has no old_unread entry and is in never_opened, and the sender
\* after it has its old_unread entry.
C15_Witness ==
    /\ Categorized
    /\ Len(sender_stats) = 2
    /\ \A k \in Elements(sender_stats[1].emails) :
          ~emails[k].isRead /\ HasTimestamp(emails[k]) /\ ~Parseable(emails[k])
    /\ ~InCategory("old_unread", sender_stats[1].addr)
    /\ InCategory("never_opened", sender_stats[1].addr)
    /\ InCategory("old_unread", sender_stats[2].addr)

\* The place of the sender's record in sender_stats: the order in which
\* the loop over sender_stats.items() meets the senders.
InsertionRank(addr) ==
    CHOOSE s \in 1..Len(sender_stats) : sender_stats[s].addr = addr

\* C16: every category's member list is in descending order of the member's
\* message count (for old_unread the number of the sender's old unread
\* messages, elsewhere the sender's total), members with equal counts in the
\* order they were inserted.
C16_MembersSortedDescendingStable ==
    Categorized =>
        \A c \in 1..Len(categories) :
            LET ms == categories[c].senders IN
            /\ \A m \in 1..Len(ms) :
                  ms[m][2].total = IF categories[c].key = "old_unread"
                                   THEN Len(ms[m][2].emails)
                                   ELSE sender_stats[InsertionRank(ms[m][1])].total
            /\ \A a, b \in 1..Len(ms) :
                  a < b =>
                     /\ ms[a][2].total >= ms[b][2].total
                     /\ ms[a][2].total = ms[b][2].total
                            => InsertionRank(ms[a][1]) < InsertionRank(ms[b][1])

\* Two senders with one old unread message each are in old_unread in the
\* order they were met, although the second has the larger total.
C16_Witness ==
    /\ Categorized
    /\ Len(MembersOf("old_unread")) = 2
    /\ MembersOf("old_unread")[1][2].total = 1
    /\ MembersOf("old_unread")[2][2].total = 1
    /\ InsertionRank(MembersOf("old_unread")[1][1]) = 1
    /\ sender_stats[1].total < sender_stats[2].total

\* The contents of categories: per category its email_count and its members
\* with their counts and messages, without the list order.
Contents(cats) ==
    [c \in 1..Len(cats) |->
        [key |-> cats[c].key,
         email_count |-> cats[c].email_count,
         members |-> { <<cats[c].senders[m][1], cats[c].senders[m][2].total,
                         cats[c].senders[m][2].emails>> : m \in 1..Len(cats[c].senders) }]]

Reverse(seq) == [k \in 1..Len(seq) |-> seq[Len(seq) + 1 - k]]

\* The clock readings of a second run: at once, or two hours later.
SecondRunTimes == { now, <<now[1] + 7200, now[2]>> }

IsNumber(token) == AllDigits(Strip(token))

NumberOf(token) == DigitsVal(Strip(token))

\* 'a-b' with numbers a and b
IsRangeExpr(expr) ==
    LET bounds == SplitOn(expr, {"-"})
    IN  Len(bounds) = 2 /\ IsNumber(bounds[1]) /\ IsNumber(bounds[2])

\* numbers separated by commas
IsListExpr(expr) ==
    LET tokens == SplitOn(expr, {","})
    IN  ~Contains(expr, "-") /\ \A k \in 1..Len(tokens) : IsNumber(tokens[k])

\* What is typed is none of 'all', a list of numbers and a range.
Malformed(typed) ==
    LET expr == Lower(Strip(typed))
    IN  expr # "all" /\ ~IsRangeExpr(expr) /\ ~IsListExpr(expr)

\* The senders display_category has listed for the category chosen.
Displayed == display_category(categories[cat])

\* The selection the menu makes of what is typed.
Resolved(typed) == ResolveSelection(Displayed, Lower(Strip(typed)))

\* C18: at the selection prompt a malformed expression resolves to the empty
\* selection; and a selected-senders cleanup (its confirmation prompt, its
\* requests) exists only for an expression that is not malformed and whose
\* selection is not empty.
C18_MalformedSelectionIsEmpty ==
    /\ pc = "select" => \A typed \in Selections : Malformed(typed) => Resolved(typed) = <<>>
    /\ op = "selected" => (~Malformed(sel) /\ Resolved(sel) # <<>>)
    /\ (pc \in {"confirm", "deleting"} /\ op # "auto") => batch # <<>>

\* At the selection prompt of a category with senders: '1' selects one, the
\* malformed expressions nothing.
C18_Witness ==
    /\ pc = "select"
    /\ Resolved("1") # <<>>
    /\ \A typed \in {"", "abc", "1,x", "1-x", "1-", "-2", "1-2-3"} :
          typed \in Selections /\ Malformed(typed) /\ Resolved(typed) = <<>>

\* The items of the displayed list at positions a..b, those of them that exist.
Clipped(a, b) ==
    LET lo == Max(a, 1)
        hi == IF b > Len(Displayed) THEN Len(Displayed) ELSE b
    IN  IF lo > hi THEN <<>> ELSE SubSeq(Displayed, lo, hi)

\* C19: for a range 'a-b' typed at the selection prompt of n displayed
\* senders: when 1 <= a <= b <= n the selection is the items at positions
\* a..b in display order; when a bound lies outside 1..n the selection is the
\* range clipped to 1..n, or empty.
C19_RangeSelectsPositions ==
    pc = "select" =>
        \A typed \in Selections :
            LET expr == Lower(Strip(typed))
                a    == NumberOf(SplitOn(expr, {"-"})[1])
                b    == NumberOf(SplitOn(expr, {"-"})[2])
                n    == Len(Displayed)
            IN  IsRangeExpr(expr) =>
                  /\ (1 <= a /\ a <= b /\ b <= n) => Resolved(typed) = SubSeq(Displayed, a, b)
                  /\ (a \notin 1..n \/ b \notin 1..n) =>
                        (Resolved(typed) = Clipped(a, b) \/ Resolved(typed) = <<>>)

\* C23: every member record of every category, the derived record of
\* old_unread included, has as many emails as its total says, and its read and
\* unread counts add up to its total.
C23_MemberCountsConsistent ==
    Categorized =>
        \A c \in 1..Len(categories) : \A m \in 1..Len(categories[c].senders) :
            LET st == categories[c].senders[m][2]
            IN  /\ st.total = Len(st.emails)
                /\ st.read + st.unread = st.total

(***************************************************************************)
(* analyze_emails and categorize_senders on senders of given counts        *)
(***************************************************************************)
MaxCount == 11

\* A sender of total messages, read of them read, all of them recent.
CountedSender(total, read) ==
    [from |-> "Carol <carol@example.org>", address |-> "carol@example.org", name |-> "Carol",
     subject |-> "Minutes", snippet |-> "", labelIds |-> {"INBOX"},
     blocks |-> << Block(read, TRUE, "Tue, 27 Feb 2024 10:00:00 +0000", "2024-02-27T10:00:00Z"),
                   Block(total - read, FALSE, "Wed, 28 Feb 2024 10:00:00 +0000",
                         "2024-02-28T10:00:00Z") >>]

\* A sender of three recent messages, none of them read.
ThreeUnread ==
    [from |-> "dave@example.org", address |-> "dave@example.org", name |-> "Dave",
     subject |-> "Notes", snippet |-> "", labelIds |-> {"INBOX"},
     blocks |-> << Block(3, FALSE, "Thu, 29 Feb 2024 10:00:00 +0000", "2024-02-29T10:00:00Z") >>]

\* The mailboxes of the two: every total up to MaxCount, every read count.
CountMailboxes(p) ==
    { LET q == ProfileMessages(p, <<CountedSender(c[1], c[2]), ThreeUnread>>)
      IN  [k \in 1..Len(q) |-> Fetched(p, q[k], k)] :
        c \in { d \in (1..MaxCount) \X (0..MaxCount) : d[2] <= d[1] } }

InitCounts ==
    /\ provider \in Providers
    /\ requested = {}
    /\ arg = NoEmail /\ ret = NoResult
    /\ pc = "fetched" /\ op = "none"
    /\ BatchIdle
    /\ emails \in CountMailboxes(provider)
    /\ now = <<0, 0>> /\ sender_stats = <<>> /\ categories = <<>>
    /\ MenuIdle

NextCounts == Analyze \/ Categorize

SpecCounts == InitCounts /\ [][NextCounts]_vars

C21_NoSecondRequest ==
    \A k \in 1..Len(issued) : issued[k].id \notin requested

\* C22: every request a session sends, from whichever menu path, is a
\* move-to-trash request: the executor is only ever called with to_trash set.
C22_OnlyTrashRequests ==
    /\ \A k \in 1..Len(issued) : issued[k].kind = "trash"
    /\ op # "none" => to_trash

\* Auto-clean has sent its requests, more than one.
C22_Witness ==
    /\ pc = "returned" /\ op = "auto"
    /\ Len(issued) >= 2
    /\ \A k \in 1..Len(issued) : issued[k] = RequestFor(TRUE, batch[k])

(***************************************************************************)
(* Properties of the sender normalization                                  *)
(***************************************************************************)
Unknown == <<"unknown", "unknown">>

\* The normalized <<address, name>> of a From header: 'Display Name <addr>',
\* a bare address, or neither.
NormalizedHeader(header) ==
    LET m == AngleMatch(header, 1)
    IN  IF header = "" THEN Unknown
        ELSE IF m[1] # 0 THEN
            LET addr    == Lower(Sub(header, m[1] + 1, m[2] - 1))
                display == StripChars(Strip(Sub(header, 1, m[1] - 1)
                                            \o Sub(header, m[2] + 1, Len(header))), {"\""})
            IN  <<addr, IF display = "" THEN addr ELSE display>>
        ELSE IF Contains(header, "@") THEN <<Lower(Strip(header)), Lower(Strip(header))>>
        ELSE Unknown

\* The normalized <<address, name>> of an emailAddress object.
NormalizedObject(address, name) ==
    IF address = Absent \/ address = "" THEN Unknown
    ELSE <<Lower(address), IF name = Absent \/ name = "" THEN Lower(address) ELSE name>>

\* The normalized sender of a fetched message.
Normalized(p, email) ==
    IF p = "gmail" THEN NormalizedHeader(Get(email.from, ""))
    ELSE NormalizedObject(email.address, email.name)

\* C20: once the analysis has returned, every message is filed under the
\* normalized address of its sender, which is lowercase, with the normalized
\* name: address and display name of 'Display Name <addr>' (the address for
\* an empty name), a bare address for both, 'unknown' for both when the
\* sender is absent, empty or neither form.
C20_SenderNormalization ==
    pc = "analyzed" =>
        \A k \in 1..Len(emails) : \A s \in HoldersOf(k) :
            /\ sender_stats[s].addr = Lower(sender_stats[s].addr)
            /\ <<sender_stats[s].addr, sender_stats[s].name>> = Normalized(provider, emails[k])

(***************************************************************************)
(* The messages the classifier is checked on                               *)
(***************************************************************************)
\* Senders, each as the Gmail From header and as the Outlook emailAddress pair.
SenderForms == {
    [from |-> "newsletter@shein.com",             address |-> "newsletter@shein.com",  name |-> "SHEIN"],
    [from |-> "Bob <bob@example.org>",            address |-> "bob@example.org",       name |-> "Bob"],
    [from |-> "\"Deals Team\" <x@y.org>",         address |-> "x@y.org",               name |-> "Deals Team"],
    [from |-> "Ann <linkedin.com@evil.org>",      address |-> "linkedin.com@evil.org", name |-> "Ann"],
    [from |-> "Alice <ALICE@Twitter.com>",        address |-> "ALICE@Twitter.com",     name |-> "Alice"],
    [from |-> "carol@mail.uber.com.example.net",  address |-> "carol@notuber.com",     name |-> Absent],
    [from |-> "Mailer Daemon",                    address |-> Absent,                  name |-> "Mailer Daemon"],
    [from |-> "",                                 address |-> Absent,                  name |-> Absent] }

Subjects == {
    "Exclusive Offer - Don't Miss This Sale!",
    "Lunch tomorrow?",
    "Your Weekly Digest",
    "Big DISCOUNT",
    Absent }

Snippets == {
    "Click to unsubscribe from this list",
    "See you at noon",
    "Shop now: free shipping on every deal",
    "" }

LabelSets == {
    {}, {"INBOX", "UNREAD"}, {"CATEGORY_PROMOTIONS", "INBOX"},
    {"CATEGORY_SOCIAL"}, {"CATEGORY_SOCIAL", "CATEGORY_PROMOTIONS"} }

ClassifierInputs(p) ==
    { [id |-> 1, from |-> IF p = "gmail" THEN f.from ELSE Absent,
       address |-> IF p = "gmail" THEN Absent ELSE f.address,
       name |-> IF p = "gmail" THEN Absent ELSE f.name,
       subject |-> s, snippet |-> b, date |-> "", isRead |-> FALSE,
       labelIds |-> IF p = "gmail" THEN l ELSE {}] :
      f \in SenderForms, s \in Subjects, b \in Snippets, l \in LabelSets }

InitClassify ==
    /\ provider \in Providers
    /\ requested = {}
    /\ arg \in ClassifierInputs(provider)
    /\ ret = NoResult
    /\ pc = "classify" /\ op = "none"
    /\ BatchIdle
    /\ NoAnalysis
    /\ MenuIdle

Classify ==
    /\ pc = "classify"
    /\ ret' = is_marketing_email(provider, arg)
    /\ pc' = "returned"
    /\ UNCHANGED <<provider, requested, arg, op, batchVars, analysisVars, menuVars>>

NextClassify == Classify

SpecClassify == InitClassify /\ [][NextClassify]_vars

(***************************************************************************)
(* Claims about is_marketing_email, checked under SpecClassify             *)
(***************************************************************************)
Returned == ret # NoResult

HasPromotionalHint == "CATEGORY_PROMOTIONS" \in arg.labelIds
HasSocialHint      == "CATEGORY_SOCIAL" \in arg.labelIds

\* The rules that fired, as the reasons list names them.
RulesFired == { ret.reasons[k][1] : k \in 1..Len(ret.reasons) }

\* C7: a message with the promotional hint classifies as (TRUE, 5), otherwise
\* one with the social hint as (TRUE, 4); in both cases the hint is the only
\* rule that fired, whatever the sender and the text are.
C7_HintShortCircuit ==
    Returned =>
        /\ HasPromotionalHint =>
             /\ ret.is_marketing /\ ret.score = 5
             /\ ret.reasons = << <<"Gmail marked as", "Promotions">> >>
        /\ (HasSocialHint /\ ~HasPromotionalHint) =>
             /\ ret.is_marketing /\ ret.score = 4
             /\ ret.reasons = << <<"Gmail marked as", "Social">> >>

\* C7's case: both hints on a message whose sender, domain and text would all
\* have scored, classified 5.
C7_Witness ==
    /\ Returned /\ HasPromotionalHint /\ HasSocialHint
    /\ arg.from = "newsletter@shein.com"
    /\ arg.snippet = "Click to unsubscribe from this list"
    /\ ret.score = 5

ListSet(list) == { list[k] : k \in 1..Len(list) }

\* The text the keyword rules read: lowercased subject, a space, lowercased snippet.
ClaimText ==
    Lower(IF arg.subject = Absent THEN "" ELSE arg.subject) \o " " \o
    Lower(IF arg.snippet = Absent THEN "" ELSE arg.snippet)

ClaimAddress ==
    IF provider = "gmail" THEN parse_sender(arg.from)[1]
    ELSE Lower(IF arg.address = Absent THEN "" ELSE arg.address)

ClaimName ==
    IF provider = "gmail" THEN Lower(parse_sender(arg.from)[2])
    ELSE Lower(IF arg.name = Absent THEN "" ELSE arg.name)

ClaimSenderComponent ==
    IF \E f \in ListSet(MARKETING_SENDER_PATTERNS) :
            Contains(ClaimAddress, f) \/ Contains(ClaimName, f)
    THEN 2 ELSE 0

ClaimKeywordsMatched ==
    Cardinality({ k \in ListSet(MARKETING_KEYWORDS) : Contains(ClaimText, k) })

ClaimKeywordComponent ==
    IF ClaimKeywordsMatched >= 3 THEN 4
    ELSE IF ClaimKeywordsMatched >= 1 THEN 2 ELSE 0

ClaimUnsubscribeComponent == IF Contains(ClaimText, "unsubscribe") THEN 3 ELSE 0

ExampleMessage ==
    /\ ClaimAddress = "newsletter@shein.com"
    /\ arg.subject = "Exclusive Offer - Don't Miss This Sale!"
    /\ Contains(ClaimText, "unsubscribe")

\* C8: without provider hints the score is the sender component (2 or 0) plus
\* the keyword component (4, 2 or 0) plus 3 for 'unsubscribe' plus a domain
\* component of 0 or 3; is_marketing is exactly score >= 3; the example message
\* scores at least 10 and is marketing.
C8_ScoreIsSumOfComponents ==
    (Returned /\ ~HasPromotionalHint /\ ~HasSocialHint) =>
        /\ ret.score - (ClaimSenderComponent + ClaimKeywordComponent
                        + ClaimUnsubscribeComponent) \in {0, 3}
        /\ ret.is_marketing <=> (ret.score >= 3)
        /\ ExampleMessage => (ret.score >= 10 /\ ret.is_marketing)

\* C8's case: the example message, classified.
C8_Witness ==
    /\ Returned /\ ~HasPromotionalHint /\ ~HasSocialHint
    /\ ExampleMessage
    /\ ret.score = 12

\* The part of an address after its last '@'; "" when it has none.
RECURSIVE DomainOf(_)
DomainOf(addr) ==
    IF ~Contains(addr, "@") THEN ""
    ELSE IF CharAt(addr, 1) = "@" /\ ~Contains(Tail(addr), "@") THEN Tail(addr)
    ELSE DomainOf(Tail(addr))

EndsWith(s, suffix) ==
    Len(s) >= Len(suffix) /\ Sub(s, Len(s) - Len(suffix) + 1, Len(s)) = suffix

\* The address's domain is a listed domain, or a subdomain of one.
DomainListed ==
    \E d \in ListSet(KNOWN_MARKETING_DOMAINS(provider)) :
        DomainOf(ClaimAddress) = d \/ EndsWith(DomainOf(ClaimAddress), "." \o d)

\* C9: the domain rule fires exactly when the domain of the sender address (the
\* part after '@') is on the known marketing domain list.
C9_DomainRuleIffDomainListed ==
    (Returned /\ ~HasPromotionalHint /\ ~HasSocialHint) =>
        (("known marketing domain" \in RulesFired) <=> DomainListed)

====
